---- MODULE Spec2Model ----
(***************************************************************************)
(* A model of verysimplex: the Problem model (problem.rs: LinearTerm,      *)
(* LinearExpression, Constraint, Objective, Problem::new, ProblemBuilder)  *)
(* the dense Tableau (tableau.rs: new, from_problem, get/set, the row and  *)
(* column operations, get_objective_value, is_feasible, is_optimal) and    *)
(* Matrix2D (matrix_2d.rs: from_vec, get, get_mut).  An abort (panic) ends *)
(* the run: the model stops there with the object as it was.               *)
(*                                                                         *)
(* f64 values are modelled by integers: every arithmetic step of the code  *)
(* modelled here is a multiplication by +1.0 or -1.0 or a comparison with  *)
(* 0.0, which are exact on the integers used.  Option<T> is a sequence of  *)
(* length 0 (None) or 1 (Some).  Indices are 0-based as in the code; the   *)
(* backing vector `data` is a TLA+ sequence, so cell k of the code is      *)
(* data[k + 1].                                                            *)
(***************************************************************************)
EXTENDS Integers, Sequences, FiniteSets, TLC

VARIABLES
    pc,             \* position of the caller: "building", "built", "failed", "transformed", "updated",
                    \* "tableau", "matrix", "panicked"
    builder,        \* ProblemBuilder { constraints, objective }
    added,          \* history: the constraints handed to add_constraint, in call order
    lastObjective,  \* history: Some(the objective handed to the last set_objective call)
    replaced,       \* history: set_objective was called on a builder that already held another objective
    problem,        \* Option<Problem>: the Problem returned by build / Problem::new
    tableau,        \* Option<Tableau>: the Tableau under operation
    matrix,         \* Option<Matrix2D<f64>>: the matrix under operation
    ret             \* the value returned by the last operation

vars == <<pc, builder, added, lastObjective, replaced, problem, tableau, matrix, ret>>

(* ------------------------------ bounds --------------------------------- *)

\* the largest number of add_constraint calls on one builder
MaxConstraints == 2

\* the largest row and column count handed to Tableau::new
MaxDim == 2

(* ------------------------------ inputs --------------------------------- *)

None == <<>>

Some(x) == <<x>>

RhsInputs == {-1, 2}

CellInputs == {-1, 0, 1}

Relation == {"LessThanOrEqual", "GreaterThanOrEqual", "LessThan", "GreaterThan", "Equal"}

ObjectiveType == {"Minimize", "Maximize"}

Variable(name) == [name |-> name]

\* Variable * f64
Mul(variable, rhs) == [variable |-> variable, coefficient |-> rhs]

\* LinearTerm + LinearTerm
AddTerms(lhs, rhs) == <<lhs, rhs>>

\* the expressions handed to the constraint constructors: 2*x1 + t
ConstraintExpression ==
    {[terms |-> AddTerms(Mul(Variable("x1"), 2), t)] :
        t \in {Mul(Variable("x1"), -1), Mul(Variable("x2"), -1)}}

\* the expressions handed to Objective::new: t + u
ObjectiveExpression ==
    {[terms |-> AddTerms(t, u)] : t, u \in {Mul(Variable("x1"), 2), Mul(Variable("x2"), -1)}}

Constraint == [expression : ConstraintExpression, relation : Relation, rhs : RhsInputs]

Objective == [objective_type : ObjectiveType, expression : ObjectiveExpression]

(* ------------------------------ problem.rs ----------------------------- *)

\* the variables of a sequence of terms, as a set
RECURSIVE TermVariables(_)
TermVariables(terms) ==
    IF terms = <<>> THEN {}
    ELSE {Head(terms).variable} \cup TermVariables(Tail(terms))

\* a discovery that walks the constraints and forgets the objective
unique_variables_of_constraints(constraints, objective) ==
    UNION {TermVariables(constraints[i].expression.terms) : i \in 1..Len(constraints)}

\* the HashSet<Variable> filled by Problem::new
unique_variables(constraints, objective) ==
    UNION {TermVariables(constraints[i].expression.terms) : i \in 1..Len(constraints)}
        \cup TermVariables(objective.expression.terms)

\* the orders in which a HashSet with a randomly keyed hasher can yield its elements
IterationOrders(S) ==
    {s \in [1..Cardinality(S) -> S] : \A i, j \in 1..Cardinality(S) : s[i] = s[j] => i = j}

\* Problem::new: the Problems it can return for these arguments
Problem_new(constraints, objective) ==
    {[variables |-> order, constraints |-> constraints, objective |-> objective] :
        order \in IterationOrders(unique_variables(constraints, objective))}

ProblemBuilder_new == [constraints |-> <<>>, objective |-> None]

add_constraint(self, constraint) ==
    [self EXCEPT !.constraints = Append(self.constraints, constraint)]

\* a setter that keeps the objective the builder already holds
set_objective_once(self, objective) ==
    IF self.objective = None THEN [self EXCEPT !.objective = Some(objective)] ELSE self

set_objective(self, objective) ==
    [self EXCEPT !.objective = Some(objective)]

\* ProblemBuilder::build: the results it can return
build(self) ==
    IF self.objective # None
    THEN {[status |-> "Ok", problem |-> Some(p)] : p \in Problem_new(self.constraints, self.objective[1])}
    ELSE {[status |-> "MissingObjectiveError", problem |-> None]}

(* ------------------------------ tableau.rs ----------------------------- *)

Tableau_new(row_count, column_count) ==
    [row_count |-> row_count, column_count |-> column_count,
     data |-> [k \in 1..(row_count * column_count) |-> 0]]

index(self, row, col) == row * self.column_count + col

is_empty(self) == self.row_count = 0 \/ self.column_count = 0

OutOfBounds(row, column) == [kind |-> "OutOfBounds", row |-> row, column |-> column]

\* Result<(), TableauError> together with the tableau after the call
Tableau_set(self, row, col, value) ==
    IF row >= self.row_count
    THEN [status |-> "Err", err |-> OutOfBounds(Some(row), None), tableau |-> self]
    ELSE IF col >= self.column_count
    THEN [status |-> "Err", err |-> OutOfBounds(None, Some(col)), tableau |-> self]
    ELSE IF index(self, row, col) >= Len(self.data)
    THEN [status |-> "Panic", err |-> OutOfBounds(None, None), tableau |-> self]
    ELSE [status |-> "Ok", err |-> OutOfBounds(None, None),
          tableau |-> [self EXCEPT !.data[index(self, row, col) + 1] = value]]

\* problem.variables.iter().position(|v| v == &term.variable)
position(variables, variable) ==
    IF \E i \in 1..Len(variables) : variables[i] = variable
    THEN Some((CHOOSE i \in 1..Len(variables) :
                  /\ variables[i] = variable
                  /\ \A j \in 1..(i - 1) : variables[j] # variable) - 1)
    ELSE None

constraint_variable_multiplier(relation) ==
    CASE relation = "LessThan" -> 1
      [] relation = "LessThanOrEqual" -> 1
      [] relation = "GreaterThan" -> -1
      [] relation = "GreaterThanOrEqual" -> -1
      [] relation = "Equal" -> 1

objective_variable_multiplier(objective_type) ==
    CASE objective_type = "Maximize" -> 1
      [] objective_type = "Minimize" -> -1

\* for term in terms { if let Some(variable_index) = position(..) { tableau.set(row, variable_index, term.coefficient * multiplier)?; } }
RECURSIVE SetTerms(_, _, _, _, _)
SetTerms(res, row, terms, variables, multiplier) ==
    IF terms = <<>> \/ res.status # "Ok" THEN res
    ELSE LET term == Head(terms)
             variable_index == position(variables, term.variable)
             next == IF variable_index # None
                     THEN Tableau_set(res.tableau, row, variable_index[1], term.coefficient * multiplier)
                     ELSE res
         IN SetTerms(next, row, Tail(terms), variables, multiplier)

\* for (i, constraint) in problem.constraints.iter().enumerate() { ... }, from row i on
RECURSIVE SetConstraints(_, _, _, _)
SetConstraints(res, i, p, column_count) ==
    IF i >= Len(p.constraints) \/ res.status # "Ok" THEN res
    ELSE LET constraint == p.constraints[i + 1]
             coefficients == SetTerms(res, i, constraint.expression.terms, p.variables,
                                      constraint_variable_multiplier(constraint.relation))
             rhs == IF coefficients.status = "Ok"
                    THEN Tableau_set(coefficients.tableau, i, column_count - 1, constraint.rhs)
                    ELSE coefficients
         IN SetConstraints(rhs, i + 1, p, column_count)

\* Tableau::from_problem: Result<Tableau, TableauError>
from_problem(p) ==
    LET row_count == Len(p.constraints) + 1
        column_count == Len(p.variables) + 1
        new == [status |-> "Ok", err |-> OutOfBounds(None, None),
                tableau |-> Tableau_new(row_count, column_count)]
        constraints == SetConstraints(new, 0, p, column_count)
        last_row == row_count - 1
        objective == SetTerms(constraints, last_row, p.objective.expression.terms, p.variables,
                              (0 - 1) * objective_variable_multiplier(p.objective.objective_type))
    IN IF objective.status = "Ok"
       THEN Tableau_set(objective.tableau, last_row, column_count - 1, 0)
       ELSE objective

\* one step of `for row in 0..self.row_count` in is_feasible, from `row` on
RECURSIVE feasible_from(_, _)
feasible_from(self, row) ==
    IF row >= self.row_count THEN [status |-> "Ok", value |-> TRUE]
    ELSE IF index(self, row, self.column_count - 1) >= Len(self.data)
    THEN [status |-> "Panic", value |-> FALSE]
    ELSE IF self.data[index(self, row, self.column_count - 1) + 1] < 0
    THEN [status |-> "Ok", value |-> FALSE]
    ELSE feasible_from(self, row + 1)

is_feasible(self) ==
    IF is_empty(self) THEN [status |-> "Ok", value |-> FALSE]
    ELSE feasible_from(self, 0)

\* one step of `for col in 0..self.column_count` in is_optimal, from `col` on
RECURSIVE optimal_from(_, _)
optimal_from(self, col) ==
    IF col >= self.column_count THEN [status |-> "Ok", value |-> TRUE]
    ELSE IF index(self, self.row_count - 1, col) >= Len(self.data)
    THEN [status |-> "Panic", value |-> FALSE]
    ELSE IF self.data[index(self, self.row_count - 1, col) + 1] < 0
    THEN [status |-> "Ok", value |-> FALSE]
    ELSE optimal_from(self, col + 1)

is_optimal(self) ==
    IF is_empty(self) THEN [status |-> "Ok", value |-> FALSE]
    ELSE optimal_from(self, 0)

\* Option<f64>, or the panic of an index past the end of `data`
get_objective_value(self) ==
    IF is_empty(self) THEN [status |-> "Ok", value |-> None]
    ELSE IF index(self, self.row_count - 1, self.column_count - 1) >= Len(self.data)
    THEN [status |-> "Panic", value |-> None]
    ELSE [status |-> "Ok",
          value |-> Some(self.data[index(self, self.row_count - 1, self.column_count - 1) + 1])]

\* stands for usize::MAX, the value of 0usize - 1 where overflow checks are off
usize_MAX == 2147483647

NoError == OutOfBounds(None, None)

VectorLengthMismatch == [kind |-> "VectorLengthMismatch", row |-> None, column |-> None]

Ok(self) == [status |-> "Ok", err |-> NoError, tableau |-> self]

Err(self, err) == [status |-> "Err", err |-> err, tableau |-> self]

\* an abort: index out of bounds, or arithmetic overflow where it is checked
Panic(self) == [status |-> "Panic", err |-> NoError, tableau |-> self]

\* std::iter::repeat(0.0).take(n)
Zeros(n) == [k \in 1..n |-> 0]

\* Vec::insert(idx, value), defined for idx <= len
Vec_insert(data, idx, value) ==
    SubSeq(data, 1, idx) \o <<value>> \o SubSeq(data, idx + 1, Len(data))

\* Vec::remove(idx) and Vec::drain(start..end), defined for end <= len
Vec_drain(data, start, end) ==
    SubSeq(data, 1, start) \o SubSeq(data, end + 1, Len(data))

\* Result<f64, TableauError>
Tableau_get(self, row, col) ==
    IF row >= self.row_count
    THEN [status |-> "Err", err |-> OutOfBounds(Some(row), None), value |-> 0]
    ELSE IF col >= self.column_count
    THEN [status |-> "Err", err |-> OutOfBounds(None, Some(col)), value |-> 0]
    ELSE IF index(self, row, col) >= Len(self.data)
    THEN [status |-> "Panic", err |-> NoError, value |-> 0]
    ELSE [status |-> "Ok", err |-> NoError, value |-> self.data[index(self, row, col) + 1]]

add_row(self) ==
    LET column_count == IF self.column_count = 0 THEN 1 ELSE self.column_count
    IN Ok([row_count |-> self.row_count + 1, column_count |-> column_count,
           data |-> self.data \o Zeros(column_count)])

add_row_at(self, idx) ==
    IF idx > self.row_count THEN Err(self, OutOfBounds(Some(idx), None))
    ELSE LET column_count == IF self.column_count = 0 THEN 1 ELSE self.column_count
             start == idx * column_count
         IN IF start > Len(self.data) THEN Panic(self)
            ELSE Ok([row_count |-> self.row_count + 1, column_count |-> column_count,
                     data |-> SubSeq(self.data, 1, start) \o Zeros(column_count)
                                 \o SubSeq(self.data, start + 1, Len(self.data))])

add_row_with_values(self, values) ==
    LET column_count == IF self.column_count = 0 THEN Len(values) ELSE self.column_count
    IN IF Len(values) # column_count THEN Err(self, VectorLengthMismatch)
       ELSE Ok([row_count |-> self.row_count + 1, column_count |-> column_count,
                data |-> self.data \o values])

\* the results remove_row can have: 0usize - 1 and len - column_count abort where
\* overflow is checked and wrap where it is not
remove_row(self) ==
    IF self.row_count = 0
    THEN {Panic(self), Err(self, OutOfBounds(Some(usize_MAX), None))}
    ELSE IF Len(self.data) < self.column_count
    THEN {Panic(self), Ok([self EXCEPT !.row_count = self.row_count - 1])}
    ELSE {Ok([self EXCEPT !.row_count = self.row_count - 1,
                          !.data = SubSeq(self.data, 1, Len(self.data) - self.column_count)])}

remove_row_at(self, idx) ==
    IF self.row_count = 0 THEN Err(self, OutOfBounds(Some(idx), None))
    ELSE IF idx >= self.row_count THEN Err(self, OutOfBounds(Some(idx), None))
    ELSE LET start == idx * self.column_count
             end == start + self.column_count
         IN IF end > Len(self.data) THEN Panic(self)
            ELSE Ok([self EXCEPT !.row_count = self.row_count - 1,
                                 !.data = Vec_drain(self.data, start, end)])

\* for row in (0..row_count).rev() { data.insert(row * column_count + col, value(row)) },
\* from `row` down; values = <<>> inserts 0.0
RECURSIVE insert_column(_, _, _, _, _)
insert_column(data, row, column_count, col, values) ==
    IF row < 0 THEN [panic |-> FALSE, data |-> data]
    ELSE IF row * column_count + col > Len(data) THEN [panic |-> TRUE, data |-> data]
    ELSE insert_column(Vec_insert(data, row * column_count + col,
                                  IF values = <<>> THEN 0 ELSE values[row + 1]),
                       row - 1, column_count, col, values)

\* for row in (0..row_count).rev() { data.remove(row * column_count + col) }, from `row` down
RECURSIVE remove_column_loop(_, _, _, _)
remove_column_loop(data, row, column_count, col) ==
    IF row < 0 THEN [panic |-> FALSE, data |-> data]
    ELSE IF row * column_count + col >= Len(data) THEN [panic |-> TRUE, data |-> data]
    ELSE remove_column_loop(Vec_drain(data, row * column_count + col, row * column_count + col + 1),
                            row - 1, column_count, col)

add_column(self) ==
    LET row_count == IF self.row_count = 0 THEN 1 ELSE self.row_count
        data == IF self.row_count = 0 THEN self.data \o Zeros(1) ELSE self.data
        loop == insert_column(data, row_count - 1, self.column_count, self.column_count, <<>>)
    IN IF loop.panic THEN Panic(self)
       ELSE Ok([row_count |-> row_count, column_count |-> self.column_count + 1,
                data |-> loop.data])

add_column_at(self, idx) ==
    IF idx > self.column_count THEN Err(self, OutOfBounds(None, Some(idx)))
    ELSE LET row_count == IF self.row_count = 0 THEN 1 ELSE self.row_count
             data == IF self.row_count = 0 THEN self.data \o Zeros(1) ELSE self.data
             loop == insert_column(data, row_count - 1, self.column_count, idx, <<>>)
         IN IF loop.panic THEN Panic(self)
            ELSE Ok([row_count |-> row_count, column_count |-> self.column_count + 1,
                     data |-> loop.data])

add_column_with_values(self, values) ==
    LET row_count == IF self.row_count = 0 THEN Len(values) ELSE self.row_count
        data == IF self.row_count = 0 THEN self.data \o Zeros(Len(values)) ELSE self.data
        loop == insert_column(data, row_count - 1, self.column_count, self.column_count,
                              values)
    IN IF Len(values) # row_count THEN Err(self, VectorLengthMismatch)
       ELSE IF loop.panic THEN Panic(self)
       ELSE Ok([row_count |-> row_count, column_count |-> self.column_count + 1,
                data |-> loop.data])

\* the results remove_column can have: 0usize - 1 aborts where overflow is checked
\* and wraps where it is not
remove_column(self) ==
    IF self.column_count = 0
    THEN {Panic(self), Err(self, OutOfBounds(None, Some(usize_MAX)))}
    ELSE LET loop == remove_column_loop(self.data, self.row_count - 1, self.column_count,
                                        self.column_count - 1)
         IN IF loop.panic THEN {Panic(self)}
            ELSE {Ok([self EXCEPT !.column_count = self.column_count - 1, !.data = loop.data])}

remove_column_at(self, idx) ==
    IF self.column_count = 0 THEN Err(self, OutOfBounds(None, Some(idx)))
    ELSE IF idx >= self.column_count THEN Err(self, OutOfBounds(None, Some(idx)))
    ELSE LET loop == remove_column_loop(self.data, self.row_count - 1, self.column_count, idx)
         IN IF loop.panic THEN Panic(self)
            ELSE Ok([self EXCEPT !.column_count = self.column_count - 1, !.data = loop.data])

(* ------------------------- the builder pipeline ------------------------ *)

NoReturn == [op |-> "none", status |-> "Ok", value |-> FALSE]

Init ==
    /\ pc = "building"
    /\ builder = ProblemBuilder_new
    /\ added = <<>>
    /\ lastObjective = None
    /\ replaced = FALSE
    /\ problem = None
    /\ tableau = None
    /\ matrix = None
    /\ ret = NoReturn

AddConstraint ==
    /\ pc = "building"
    /\ Len(added) < MaxConstraints
    /\ \E constraint \in Constraint :
          /\ builder' = add_constraint(builder, constraint)
          /\ added' = Append(added, constraint)
    /\ UNCHANGED <<matrix, pc, lastObjective, replaced, problem, tableau, ret>>

SetObjective ==
    /\ pc = "building"
    /\ \E objective \in Objective :
          /\ builder' = set_objective(builder, objective)
          /\ lastObjective' = Some(objective)
          /\ replaced' = (replaced \/ (lastObjective # None /\ lastObjective # Some(objective)))
    /\ UNCHANGED <<matrix, pc, added, problem, tableau, ret>>

Build ==
    /\ pc = "building"
    /\ \E result \in build(builder) :
          /\ problem' = result.problem
          /\ ret' = [op |-> "build", status |-> result.status, value |-> FALSE]
          /\ pc' = IF result.status = "Ok" THEN "built" ELSE "failed"
    /\ UNCHANGED <<matrix, builder, added, lastObjective, replaced, tableau>>

\* Problem::new(problem.constraints.clone(), problem.objective.clone())
ProblemNewAgain ==
    /\ pc = "built"
    /\ \E p \in Problem_new(problem[1].constraints, problem[1].objective) :
          problem' = Some(p)
    /\ UNCHANGED <<matrix, pc, builder, added, lastObjective, replaced, tableau, ret>>

\* let tableau: Result<Tableau, TableauError> = problem.into();
FromProblem ==
    /\ pc = "built"
    /\ LET result == from_problem(problem[1])
       IN /\ tableau' = IF result.status = "Ok" THEN Some(result.tableau) ELSE None
          /\ ret' = [op |-> "from_problem", status |-> result.status, value |-> result.err]
    /\ pc' = "transformed"
    /\ UNCHANGED <<matrix, builder, added, lastObjective, replaced, problem>>

Next ==
    \/ AddConstraint
    \/ SetObjective
    \/ Build
    \/ ProblemNewAgain
    \/ FromProblem

Spec == Init /\ [][Next]_vars

(* ------------------------- operations on a Tableau --------------------- *)

\* the state after Tableau::new(row_count, column_count)
InitTableau ==
    /\ pc = "tableau"
    /\ builder = ProblemBuilder_new
    /\ added = <<>>
    /\ lastObjective = None
    /\ replaced = FALSE
    /\ problem = None
    /\ \E row_count, column_count \in 0..MaxDim :
          tableau = Some(Tableau_new(row_count, column_count))
    /\ matrix = None
    /\ ret = NoReturn

\* the vectors handed to add_row_with_values and add_column_with_values
ValueVectors == UNION {[1..n -> CellInputs] : n \in 0..MaxDim}

\* the call `op(args)` on the tableau returned `result`
TableauStep(op, args, result) ==
    /\ tableau' = Some(result.tableau)
    /\ ret' = [op |-> op, args |-> args, status |-> result.status, value |-> result.err]
    /\ pc' = IF result.status = "Panic" THEN "panicked" ELSE pc
    /\ UNCHANGED <<builder, added, lastObjective, replaced, problem, matrix>>

\* the tableau may still grow by a row, a column
RowsBelowBound ==
    tableau[1].row_count < MaxDim /\ Len(tableau[1].data) < MaxDim * MaxDim

ColumnsBelowBound ==
    tableau[1].column_count < MaxDim /\ Len(tableau[1].data) < MaxDim * MaxDim

TableauGet ==
    /\ pc = "tableau"
    /\ \E row, col \in 0..MaxDim :
          LET result == Tableau_get(tableau[1], row, col)
          IN /\ ret' = [op |-> "get", args |-> <<row, col>>, status |-> result.status,
                        value |-> IF result.status = "Err" THEN result.err ELSE result.value]
             /\ pc' = IF result.status = "Panic" THEN "panicked" ELSE pc
    /\ UNCHANGED <<builder, added, lastObjective, replaced, problem, tableau, matrix>>

TableauSet ==
    /\ pc = "tableau"
    /\ \E row, col \in 0..MaxDim, value \in CellInputs :
          TableauStep("set", <<row, col, value>>, Tableau_set(tableau[1], row, col, value))

AddRow ==
    /\ pc = "tableau" /\ RowsBelowBound
    /\ TableauStep("add_row", <<>>, add_row(tableau[1]))

AddRowAt ==
    /\ pc = "tableau" /\ RowsBelowBound
    /\ \E idx \in 0..MaxDim : TableauStep("add_row_at", <<idx>>, add_row_at(tableau[1], idx))

AddRowWithValues ==
    /\ pc = "tableau" /\ RowsBelowBound
    /\ \E values \in ValueVectors :
          TableauStep("add_row_with_values", <<values>>, add_row_with_values(tableau[1], values))

RemoveRow ==
    /\ pc = "tableau"
    /\ \E result \in remove_row(tableau[1]) : TableauStep("remove_row", <<>>, result)

RemoveRowAt ==
    /\ pc = "tableau"
    /\ \E idx \in 0..MaxDim : TableauStep("remove_row_at", <<idx>>, remove_row_at(tableau[1], idx))

AddColumn ==
    /\ pc = "tableau" /\ ColumnsBelowBound
    /\ TableauStep("add_column", <<>>, add_column(tableau[1]))

AddColumnAt ==
    /\ pc = "tableau" /\ ColumnsBelowBound
    /\ \E idx \in 0..MaxDim : TableauStep("add_column_at", <<idx>>, add_column_at(tableau[1], idx))

AddColumnWithValues ==
    /\ pc = "tableau" /\ ColumnsBelowBound
    /\ \E values \in ValueVectors :
          TableauStep("add_column_with_values", <<values>>,
                      add_column_with_values(tableau[1], values))

RemoveColumn ==
    /\ pc = "tableau"
    /\ \E result \in remove_column(tableau[1]) : TableauStep("remove_column", <<>>, result)

RemoveColumnAt ==
    /\ pc = "tableau"
    /\ \E idx \in 0..MaxDim :
          TableauStep("remove_column_at", <<idx>>, remove_column_at(tableau[1], idx))

\* the call `op()` of a predicate of the tableau returned `result`
TableauQuery(op, result) ==
    /\ ret' = [op |-> op, args |-> <<>>, status |-> result.status, value |-> result.value]
    /\ pc' = IF result.status = "Panic" THEN "panicked" ELSE pc
    /\ UNCHANGED <<builder, added, lastObjective, replaced, problem, tableau, matrix>>

IsFeasible ==
    /\ pc = "tableau"
    /\ TableauQuery("is_feasible", is_feasible(tableau[1]))

IsOptimal ==
    /\ pc = "tableau"
    /\ TableauQuery("is_optimal", is_optimal(tableau[1]))

NextTableau ==
    \/ TableauGet
    \/ TableauSet
    \/ AddRow
    \/ AddRowAt
    \/ AddRowWithValues
    \/ RemoveRow
    \/ RemoveRowAt
    \/ AddColumn
    \/ AddColumnAt
    \/ AddColumnWithValues
    \/ RemoveColumn
    \/ RemoveColumnAt
    \/ IsFeasible
    \/ IsOptimal

SpecTableau == InitTableau /\ [][NextTableau]_vars

(* ------------------- a Problem, transformed and updated ---------------- *)

\* the Problems build returns for at most one constraint
InitTransform ==
    /\ pc = "built"
    /\ builder = ProblemBuilder_new
    /\ added = <<>>
    /\ lastObjective = None
    /\ replaced = FALSE
    /\ \E constraints \in {<<>>} \cup {<<c>> : c \in Constraint}, objective \in Objective :
          \E p \in Problem_new(constraints, objective) : problem = Some(p)
    /\ tableau = None
    /\ matrix = None
    /\ ret = NoReturn

\* problem.variables.pop(): the fields of Problem are public
VariablesPop ==
    /\ pc = "built"
    /\ Len(problem[1].variables) > 0
    /\ problem' = Some([problem[1] EXCEPT
                          !.variables = SubSeq(@, 1, Len(@) - 1)])
    /\ ret' = [op |-> "pop", status |-> "Ok", value |-> NoError]
    /\ UNCHANGED <<pc, builder, added, lastObjective, replaced, tableau, matrix>>

\* one tableau.set(row, col, value) on the tableau of from_problem, as a solver's update
TransformedSet ==
    /\ pc = "transformed" /\ tableau # None
    /\ \E row, col \in 0..MaxDim, value \in CellInputs :
          LET result == Tableau_set(tableau[1], row, col, value)
          IN /\ tableau' = Some(result.tableau)
             /\ ret' = [op |-> "set", args |-> <<row, col, value>>,
                        status |-> result.status, value |-> result.err]
    /\ pc' = "updated"
    /\ UNCHANGED <<builder, added, lastObjective, replaced, problem, matrix>>

GetObjectiveValue ==
    /\ pc \in {"transformed", "updated"} /\ tableau # None
    /\ LET result == get_objective_value(tableau[1])
       IN ret' = [op |-> "get_objective_value", args |-> <<>>,
                  status |-> result.status, value |-> result.value]
    /\ UNCHANGED <<pc, builder, added, lastObjective, replaced, problem, tableau, matrix>>

NextTransform ==
    \/ VariablesPop
    \/ FromProblem
    \/ TransformedSet
    \/ GetObjectiveValue

SpecTransform == InitTransform /\ [][NextTransform]_vars

(* ------------------------------ matrix_2d.rs --------------------------- *)

EntryInputs == {0, 1}

\* the vectors handed to Matrix2D::from_vec
DataVectors == UNION {[1..n -> EntryInputs] : n \in 0..(MaxDim * MaxDim)}

\* Option<Matrix2D<T>>
Matrix2D_from_vec(rows, columns, data) ==
    IF Len(data) = rows * columns
    THEN Some([data |-> data, rows |-> rows, columns |-> columns])
    ELSE None

\* a bounds check that lets the index one past the end through
Matrix2D_indices_valid_inclusive(self, row, column) ==
    row <= self.rows /\ column < self.columns

Matrix2D_indices_valid(self, row, column) ==
    row < self.rows /\ column < self.columns

Matrix2D_index(self, row, col) == row * self.columns + col

\* Option<&T>, or the panic of an index past the end of `data`
Matrix2D_get(self, row, column) ==
    IF Matrix2D_indices_valid(self, row, column)
    THEN IF Matrix2D_index(self, row, column) >= Len(self.data)
         THEN [status |-> "Panic", value |-> None]
         ELSE [status |-> "Ok", value |-> Some(self.data[Matrix2D_index(self, row, column) + 1])]
    ELSE [status |-> "Ok", value |-> None]

\* if let Some(value) = matrix.get_mut(row, column) { *value = new }: the matrix afterwards,
\* and whether get_mut returned Some
Matrix2D_get_mut(self, row, column, new) ==
    IF Matrix2D_indices_valid(self, row, column)
          /\ Matrix2D_index(self, row, column) < Len(self.data)
    THEN [some |-> TRUE,
          matrix |-> [self EXCEPT !.data[Matrix2D_index(self, row, column) + 1] = new]]
    ELSE [some |-> FALSE, matrix |-> self]

InitMatrix ==
    /\ pc = "matrix"
    /\ builder = ProblemBuilder_new
    /\ added = <<>>
    /\ lastObjective = None
    /\ replaced = FALSE
    /\ problem = None
    /\ tableau = None
    /\ matrix = None
    /\ ret = NoReturn

FromVec ==
    /\ pc = "matrix" /\ ret = NoReturn
    /\ \E rows, columns \in 0..MaxDim, data \in DataVectors :
          /\ matrix' = Matrix2D_from_vec(rows, columns, data)
          /\ ret' = [op |-> "from_vec", args |-> <<rows, columns, data>>,
                     status |-> "Ok", value |-> None]
    /\ UNCHANGED <<pc, builder, added, lastObjective, replaced, problem, tableau>>

MatrixGet ==
    /\ pc = "matrix" /\ matrix # None
    /\ \E row, column \in 0..MaxDim :
          LET result == Matrix2D_get(matrix[1], row, column)
          IN /\ ret' = [op |-> "get", args |-> <<row, column>>,
                        status |-> result.status, value |-> result.value]
             /\ pc' = IF result.status = "Panic" THEN "panicked" ELSE pc
    /\ UNCHANGED <<builder, added, lastObjective, replaced, problem, tableau, matrix>>

MatrixGetMut ==
    /\ pc = "matrix" /\ matrix # None
    /\ \E row, column \in 0..MaxDim, new \in EntryInputs :
          LET result == Matrix2D_get_mut(matrix[1], row, column, new)
          IN /\ matrix' = Some(result.matrix)
             /\ ret' = [op |-> "get_mut", args |-> <<row, column, new>>,
                        status |-> "Ok", value |-> result.some]
    /\ UNCHANGED <<pc, builder, added, lastObjective, replaced, problem, tableau>>

NextMatrix ==
    \/ FromVec
    \/ MatrixGet
    \/ MatrixGetMut

SpecMatrix == InitMatrix /\ [][NextMatrix]_vars

(* ------------------------------ properties ----------------------------- *)

\* the cell (row, col) of a tableau
Cell(t, row, col) == t.data[index(t, row, col) + 1]

\* the backing vector holds one entry per cell
WellFormed(t) == Len(t.data) = t.row_count * t.column_count

\* the rows of the constraints: every row but the last
ConstraintRows(t) == 0..(t.row_count - 2)

\* the sum of the coefficients of the terms on a variable
RECURSIVE CoefficientSum(_, _)
CoefficientSum(terms, variable) ==
    IF terms = <<>> THEN 0
    ELSE (IF Head(terms).variable = variable THEN Head(terms).coefficient ELSE 0)
            + CoefficientSum(Tail(terms), variable)

\* the number of terms on a variable
RECURSIVE TermCount(_, _)
TermCount(terms, variable) ==
    IF terms = <<>> THEN 0
    ELSE (IF Head(terms).variable = variable THEN 1 ELSE 0) + TermCount(Tail(terms), variable)

\* the auxiliary variables the standard form gives a constraint
AuxiliaryCount(constraint) ==
    IF constraint.relation \in {"GreaterThanOrEqual", "GreaterThan"} THEN 2 ELSE 1

RECURSIVE AuxiliaryTotal(_)
AuxiliaryTotal(constraints) ==
    IF constraints = <<>> THEN 0
    ELSE AuxiliaryCount(Head(constraints)) + AuxiliaryTotal(Tail(constraints))

\* from_problem has returned Ok(tableau) for the problem
Transformed == pc = "transformed" /\ tableau # None

\* C1: the tableau of from_problem has constraints + 1 rows and
\* original variables + auxiliary variables + 1 columns.
TableauDimensions ==
    Transformed =>
        /\ tableau[1].row_count = Len(problem[1].constraints) + 1
        /\ tableau[1].column_count =
              Len(problem[1].variables) + AuxiliaryTotal(problem[1].constraints) + 1

\* column c, beyond the original variables, holds v in row i and 0 in every other constraint row
OwnsColumn(t, i, c, v) ==
    /\ Cell(t, i, c) = v
    /\ \A r \in ConstraintRows(t) \ {i} : Cell(t, r, c) = 0

\* C2: every constraint row owns its auxiliary columns: a slack (+1) for <= and <,
\* a surplus (-1) and an artificial (+1) for >= and >, an artificial (+1) for =;
\* every auxiliary column is non-zero in exactly one constraint row.
AuxiliaryColumns ==
    Transformed =>
        LET t == tableau[1]
            p == problem[1]
            aux == Len(p.variables)..(t.column_count - 2)
        IN /\ \A i \in ConstraintRows(t) :
                 IF p.constraints[i + 1].relation \in {"GreaterThanOrEqual", "GreaterThan"}
                 THEN \E c, d \in aux : c # d /\ OwnsColumn(t, i, c, -1) /\ OwnsColumn(t, i, d, 1)
                 ELSE \E c \in aux : OwnsColumn(t, i, c, 1)
           /\ \A c \in aux : Cardinality({r \in ConstraintRows(t) : Cell(t, r, c) # 0}) = 1

\* C3: every constraint row of the tableau of from_problem has a right-hand side >= 0.
NonNegativeRhs ==
    Transformed =>
        \A i \in ConstraintRows(tableau[1]) :
            Cell(tableau[1], i, tableau[1].column_count - 1) >= 0

\* C4: the last row holds -c_v (Maximize) or +c_v (Minimize) in the column of each
\* original variable v, c_v being v's coefficient in the objective (0 when v does not
\* occur in it), and 0 in the right-hand-side column.
ObjectiveRow ==
    Transformed =>
        LET t == tableau[1]
            p == problem[1]
            last_row == t.row_count - 1
        IN /\ \A j \in 1..Len(p.variables) :
                 LET c == CoefficientSum(p.objective.expression.terms, p.variables[j])
                 IN Cell(t, last_row, j - 1) =
                       IF p.objective.objective_type = "Maximize" THEN 0 - c ELSE c
           /\ Cell(t, last_row, t.column_count - 1) = 0

\* C5: where an expression holds several terms on one variable, the entry of that
\* variable's column comes from the sum of their coefficients.
DuplicateTermsSummed ==
    Transformed =>
        LET t == tableau[1]
            p == problem[1]
        IN \A j \in 1..Len(p.variables) :
              /\ \A i \in ConstraintRows(t) :
                    LET terms == p.constraints[i + 1].expression.terms
                    IN TermCount(terms, p.variables[j]) > 1 =>
                          Cell(t, i, j - 1) =
                             CoefficientSum(terms, p.variables[j])
                                * constraint_variable_multiplier(p.constraints[i + 1].relation)
              /\ LET terms == p.objective.expression.terms
                 IN TermCount(terms, p.variables[j]) > 1 =>
                       Cell(t, t.row_count - 1, j - 1) =
                          CoefficientSum(terms, p.variables[j]) * (0 - 1)
                             * objective_variable_multiplier(p.objective.objective_type)

\* C6: Problem::new on the same constraints and objective yields the same variable
\* order again (and so the same columns and the same tableau).
DeterministicVariableOrder ==
    [][ProblemNewAgain =>
          /\ problem'[1].variables = problem[1].variables
          /\ from_problem(problem'[1]) = from_problem(problem[1])]_vars

\* C7: the variables of a built Problem are pairwise distinct, and they are exactly
\* the variables of the terms of its constraints and of its objective.
VariablesDeduplicated ==
    problem # None =>
        LET p == problem[1]
            n == Len(p.variables)
        IN /\ \A i, j \in 1..n : p.variables[i].name = p.variables[j].name => i = j
           /\ \A k \in 1..Len(p.constraints) :
                 \A m \in 1..Len(p.constraints[k].expression.terms) :
                    \E i \in 1..n : p.variables[i] = p.constraints[k].expression.terms[m].variable
           /\ \A m \in 1..Len(p.objective.expression.terms) :
                 \E i \in 1..n : p.variables[i] = p.objective.expression.terms[m].variable
           /\ \A i \in 1..n :
                 \/ \E k \in 1..Len(p.constraints) :
                       \E m \in 1..Len(p.constraints[k].expression.terms) :
                          p.constraints[k].expression.terms[m].variable = p.variables[i]
                 \/ \E m \in 1..Len(p.objective.expression.terms) :
                       p.objective.expression.terms[m].variable = p.variables[i]

\* a Problem with two variables, one of them only in the objective, the other in
\* several terms
VariablesDeduplicatedWitness ==
    /\ pc = "built"
    /\ Len(problem[1].variables) = 2
    /\ Len(problem[1].constraints) = 2
    /\ \A k \in 1..2 : TermCount(problem[1].constraints[k].expression.terms, Variable("x1")) = 2
    /\ TermCount(problem[1].objective.expression.terms, Variable("x2")) = 2

\* C8: build fails with MissingObjectiveError exactly when set_objective was never
\* called; otherwise the Problem holds the added constraints in the order added and
\* the objective of the last set_objective call.
BuildContract ==
    pc \in {"built", "failed", "transformed"} =>
        /\ (pc = "failed") <=> (lastObjective = None)
        /\ pc = "failed" => problem = None
        /\ pc # "failed" =>
              /\ problem # None
              /\ problem[1].constraints = added
              /\ Some(problem[1].objective) = lastObjective

\* build returned Ok after two different constraints and a replaced objective
BuildContractWitness ==
    /\ pc = "built"
    /\ ret.op = "build" /\ ret.status = "Ok"
    /\ replaced
    /\ Len(added) = 2 /\ added[1] # added[2]

\* C9: is_feasible returns true exactly when the right-hand side of every
\* constraint row is >= 0, whatever the right-hand side of the objective row
\* (stated for a tableau that has an objective row and a right-hand-side column).
FeasibleIffConstraintRhsNonNegative ==
    (ret.op = "is_feasible" /\ ~is_empty(tableau[1]) /\ WellFormed(tableau[1])) =>
        (ret.value <=>
            \A i \in ConstraintRows(tableau[1]) :
                Cell(tableau[1], i, tableau[1].column_count - 1) >= 0)

\* C10: is_optimal returns true exactly when every entry of the last row but the
\* right-hand side is >= 0, whatever the right-hand side of the objective row
\* (stated for a tableau that has an objective row and a right-hand-side column).
OptimalIffObjectiveRowNonNegative ==
    (ret.op = "is_optimal" /\ ~is_empty(tableau[1]) /\ WellFormed(tableau[1])) =>
        (ret.value <=>
            \A c \in 0..(tableau[1].column_count - 2) :
                Cell(tableau[1], tableau[1].row_count - 1, c) >= 0)

\* C11: the objective value reported for the tableau of a Problem is the
\* right-hand side of the objective row for Maximize and its negation for Minimize.
ObjectiveValueUnnegated ==
    (ret.op = "get_objective_value" /\ pc \in {"transformed", "updated"}) =>
        LET t == tableau[1]
            entry == Cell(t, t.row_count - 1, t.column_count - 1)
        IN /\ ret.status = "Ok"
           /\ ret.value = Some(IF problem[1].objective.objective_type = "Maximize"
                               THEN entry ELSE 0 - entry)

\* a term of a constraint or of the objective names a variable that the list lacks
HasUnknownVariable(p) ==
    \/ \E k \in 1..Len(p.constraints) :
          \E m \in 1..Len(p.constraints[k].expression.terms) :
             position(p.variables, p.constraints[k].expression.terms[m].variable) = None
    \/ \E m \in 1..Len(p.objective.expression.terms) :
          position(p.variables, p.objective.expression.terms[m].variable) = None

\* C14: from_problem returns an UnknownVariableReference error when a term names a
\* variable that is absent from the Problem's variables; it never returns Ok then.
UnknownVariableRejected ==
    (pc = "transformed" /\ ret.op = "from_problem" /\ HasUnknownVariable(problem[1])) =>
        /\ ret.status = "Err"
        /\ ret.value.kind = "UnknownVariableReference"

\* the cells get can read: the indices are in range and the entry exists
Readable(t, row, col) ==
    row < t.row_count /\ col < t.column_count /\ index(t, row, col) < Len(t.data)

\* the counts are the same and every cell but the given ones holds what it held
SameExcept(old, new, cells) ==
    /\ new.row_count = old.row_count
    /\ new.column_count = old.column_count
    /\ \A i \in 0..(old.row_count - 1) : \A j \in 0..(old.column_count - 1) :
          <<i, j>> \notin cells =>
              /\ Readable(old, i, j) <=> Readable(new, i, j)
              /\ Readable(old, i, j) => Cell(new, i, j) = Cell(old, i, j)

\* the error of get and set names the axis that is out of range; when both are out of
\* range no more is asked here than that the row is named
AxisIdentified(t, row, col, err) ==
    /\ err.kind = "OutOfBounds"
    /\ row >= t.row_count => err.row = Some(row)
    /\ (row < t.row_count /\ col >= t.column_count) => err.column = Some(col)

\* C13: get and set return Err(OutOfBounds) exactly when the row or the column is out of
\* range and the error names the failing axis; a failing set changes nothing, a
\* successful set changes only the cell (row, col), and a get of that cell right after
\* returns the value set.
GetSetBoundsChecked ==
    [][(pc = "tableau" /\ ret'.op \in {"get", "set"}) =>
         LET t == tableau[1]
             row == ret'.args[1]
             col == ret'.args[2]
             outside == row >= t.row_count \/ col >= t.column_count
         IN /\ ret'.status = (IF outside THEN "Err" ELSE "Ok")
            /\ outside => AxisIdentified(t, row, col, ret'.value)
            /\ (ret'.op = "set" /\ outside) => tableau' = tableau
            /\ (ret'.op = "set" /\ ~outside) =>
                  /\ SameExcept(t, tableau'[1], {<<row, col>>})
                  /\ Readable(tableau'[1], row, col)
                  /\ Cell(tableau'[1], row, col) = ret'.args[3]
            /\ (ret'.op = "get" /\ ret.op = "set" /\ ret.status = "Ok"
                  /\ ret.args[1] = row /\ ret.args[2] = col) =>
                  ret'.value = ret.args[3]
      ]_vars

\* C15: remove_row on a tableau without rows and remove_column on a tableau without
\* columns return Err(OutOfBounds) and leave the tableau as it was; the index of the
\* error is not the wrapped 0 - 1 and the call does not abort.
RemoveFromEmptyIsError ==
    [][(pc = "tableau" /\ \/ ret'.op = "remove_row" /\ tableau[1].row_count = 0
                          \/ ret'.op = "remove_column" /\ tableau[1].column_count = 0) =>
         /\ ret'.status = "Err"
         /\ ret'.value.kind = "OutOfBounds"
         /\ ret'.value.row # Some(usize_MAX)
         /\ ret'.value.column # Some(usize_MAX)
         /\ tableau' = tableau
      ]_vars

\* every cell within the counts can be read
AllReadable(t) ==
    \A i \in 0..(t.row_count - 1) : \A j \in 0..(t.column_count - 1) : Readable(t, i, j)

\* the cells that could be read before hold the same values after
CellsKept(old, new) ==
    \A i \in 0..(old.row_count - 1) : \A j \in 0..(old.column_count - 1) :
        Readable(old, i, j) => (Readable(new, i, j) /\ Cell(new, i, j) = Cell(old, i, j))

\* C16: add_row on any tableau, also one without columns, adds one row at the end:
\* row_count is one larger, column_count is at least 1, every cell within the counts
\* can be read, the new last row is all 0.0 and the earlier cells are unchanged.
AddRowAppendsZeroRow ==
    [][(pc = "tableau" /\ ret'.op = "add_row") =>
         LET old == tableau[1]
             new == tableau'[1]
         IN /\ ret'.status = "Ok"
            /\ new.row_count = old.row_count + 1
            /\ new.column_count >= 1
            /\ AllReadable(new)
            /\ \A j \in 0..(new.column_count - 1) : Cell(new, new.row_count - 1, j) = 0
            /\ CellsKept(old, new)
      ]_vars

\* C17: add_row_with_values returns Err(VectorLengthMismatch) and changes nothing when
\* the length of values differs from the number of columns; otherwise it returns Ok,
\* row_count grows by one, the new last row is values and the earlier rows are unchanged.
AddRowWithValuesChecksLength ==
    [][(pc = "tableau" /\ ret'.op = "add_row_with_values") =>
         LET old == tableau[1]
             new == tableau'[1]
             values == ret'.args[1]
         IN IF Len(values) # old.column_count
            THEN /\ ret'.status = "Err"
                 /\ ret'.value = VectorLengthMismatch
                 /\ new = old
            ELSE /\ ret'.status = "Ok"
                 /\ new.row_count = old.row_count + 1
                 /\ new.column_count = old.column_count
                 /\ \A j \in 0..(new.column_count - 1) :
                       /\ Readable(new, new.row_count - 1, j)
                       /\ Cell(new, new.row_count - 1, j) = values[j + 1]
                 /\ CellsKept(old, new)
      ]_vars

\* C19: in every state reached from Tableau::new(r, c) by the operations of the
\* tableau, the backing vector holds row_count * column_count entries and no
\* operation has aborted.
DataLengthInvariant ==
    pc \in {"tableau", "panicked"} => (WellFormed(tableau[1]) /\ pc # "panicked")

\* C20: on a tableau with at least one row, add_column_at(index) with index <=
\* column_count returns Ok, keeps row_count, grows column_count by one, puts 0.0 into
\* column index and moves the cells at and after index one column to the right; with
\* index > column_count it returns Err(OutOfBounds) naming the column and changes
\* nothing. add_column is the case index = column_count, and remove_column_at(index)
\* right after restores the tableau.
AddColumnAtShiftsRight ==
    [][(pc = "tableau" /\ ret'.op \in {"add_column_at", "add_column"}
          /\ tableau[1].row_count >= 1) =>
         LET old == tableau[1]
             new == tableau'[1]
             idx == IF ret'.op = "add_column" THEN old.column_count ELSE ret'.args[1]
         IN IF idx > old.column_count
            THEN /\ ret'.status = "Err"
                 /\ ret'.value.kind = "OutOfBounds"
                 /\ ret'.value.column = Some(idx)
                 /\ new = old
            ELSE /\ ret'.status = "Ok"
                 /\ new.row_count = old.row_count
                 /\ new.column_count = old.column_count + 1
                 /\ AllReadable(new)
                 /\ \A r \in 0..(old.row_count - 1) :
                       /\ Cell(new, r, idx) = 0
                       /\ \A c \in 0..(old.column_count - 1) :
                             /\ Readable(old, r, c)
                             /\ Cell(new, r, IF c < idx THEN c ELSE c + 1) = Cell(old, r, c)
                 /\ remove_column_at(new, idx) = Ok(old)
      ]_vars

\* the entry of row i, column j in a row-major vector with `columns` columns
Entry(data, columns, i, j) == data[i * columns + j + 1]

\* C18: from_vec(rows, columns, data) returns Some exactly when data holds rows *
\* columns entries; on the matrix it returns, get(i, j) returns Some(data[i * columns + j])
\* exactly when i < rows and j < columns and None otherwise; a write through
\* get_mut(i, j) is the value a get(i, j) right after returns and changes no other cell.
MatrixFromVecGetGetMut ==
    [][/\ ret'.op = "from_vec" =>
             LET rows == ret'.args[1]
                 columns == ret'.args[2]
                 data == ret'.args[3]
             IN /\ (matrix' # None) <=> (Len(data) = rows * columns)
                /\ matrix' # None =>
                      /\ matrix'[1].rows = rows
                      /\ matrix'[1].columns = columns
       /\ (ret.op = "from_vec" /\ ret'.op = "get") =>
             LET rows == ret.args[1]
                 columns == ret.args[2]
                 data == ret.args[3]
                 i == ret'.args[1]
                 j == ret'.args[2]
             IN /\ ret'.status = "Ok"
                /\ ret'.value = (IF i < rows /\ j < columns
                                 THEN Some(Entry(data, columns, i, j)) ELSE None)
       /\ ret'.op = "get_mut" =>
             LET old == matrix[1]
                 new == matrix'[1]
                 i == ret'.args[1]
                 j == ret'.args[2]
             IN /\ ret'.value <=> (i < old.rows /\ j < old.columns)
                /\ new.rows = old.rows /\ new.columns = old.columns
                /\ Len(new.data) = Len(old.data)
                /\ \A r \in 0..(old.rows - 1) : \A c \in 0..(old.columns - 1) :
                      Entry(new.data, new.columns, r, c) =
                          (IF <<r, c>> = <<i, j>> THEN ret'.args[3]
                           ELSE Entry(old.data, old.columns, r, c))
       /\ (ret.op = "get_mut" /\ ret.value /\ ret'.op = "get"
             /\ ret'.args = <<ret.args[1], ret.args[2]>>) =>
             /\ ret'.status = "Ok"
             /\ ret'.value = Some(ret.args[3])
      ]_vars

\* a get returned the 1 that sits in row 1, column 0 of a 2 x 2 matrix
MatrixFromVecGetGetMutWitness ==
    /\ pc = "matrix" /\ matrix # None
    /\ matrix[1] = [data |-> <<0, 0, 1, 0>>, rows |-> 2, columns |-> 2]
    /\ ret.op = "get" /\ ret.args = <<1, 0>> /\ ret.value = Some(1)

\* the assignments of small non-negative values to n variables
Assignments(n) == [1..n -> 0..2]

\* the sum of f[j] * x[j] over j in 1..n
RECURSIVE Dot(_, _, _)
Dot(f, x, n) == IF n = 0 THEN 0 ELSE f[n] * x[n] + Dot(f, x, n - 1)

\* the coefficients a_j of a constraint, in the order of the problem's variables
ConstraintCoefficients(p, k) ==
    [j \in 1..Len(p.variables) |->
        CoefficientSum(p.constraints[k].expression.terms, p.variables[j])]

\* the coefficient entries of row i of the tableau
RowCoefficients(t, i) == [j \in 1..(t.column_count - 1) |-> Cell(t, i, j - 1)]

\* C21: for every constraint with relation >= or >, the row written by from_problem is
\* the constraint multiplied by -1 on both sides: the entries are -a_j and -rhs, so
\* that a non-negative x satisfies row . x <= rhs entry exactly when a . x >= rhs;
\* > and >= give the same row.
GreaterRowsNegated ==
    Transformed =>
        LET p == problem[1]
            t == tableau[1]
            n == Len(p.variables)
            Greater == {k \in 1..Len(p.constraints) :
                           p.constraints[k].relation \in {"GreaterThanOrEqual", "GreaterThan"}}
        IN /\ \A k \in Greater :
                 LET a == ConstraintCoefficients(p, k)
                     row == RowCoefficients(t, k - 1)
                     rhs == Cell(t, k - 1, t.column_count - 1)
                 IN /\ \A j \in 1..n : row[j] = 0 - a[j]
                    /\ rhs = 0 - p.constraints[k].rhs
                    /\ \A x \in Assignments(n) :
                          (Dot(row, x, n) <= rhs) <=> (Dot(a, x, n) >= p.constraints[k].rhs)
           /\ \A k, m \in Greater :
                 (/\ p.constraints[k].expression = p.constraints[m].expression
                  /\ p.constraints[k].rhs = p.constraints[m].rhs) =>
                     /\ RowCoefficients(t, k - 1) = RowCoefficients(t, m - 1)
                     /\ Cell(t, k - 1, t.column_count - 1) = Cell(t, m - 1, t.column_count - 1)

====
